---- MODULE Spec2Model ----
(***************************************************************************)
(* Model of the mood-log ingestion service of src/src/main.rs: the POST    *)
(* /log handler (header gate, UTF-8 decode, CSV parse, gap detection), the *)
(* CSV entry parser and the missing-entry-date computation.                *)
(*                                                                         *)
(* Text is modelled at the byte level.  A byte is a string: a one-         *)
(* character string for an ASCII byte ("x0B" for the vertical tab, which   *)
(* no string escape writes), and one of the tokens of HighBytes for a byte *)
(* >= 0x80.  A Rust String / &str / HeaderValue / Bytes is a               *)
(* sequence of such bytes.  The CSV model covers unquoted fields (the      *)
(* inputs contain no double quote).                                        *)
(***************************************************************************)
EXTENDS Integers, Sequences, FiniteSets, TLC

\* ------------------------------------------------------------------ bounds

\* Largest number of days by which the generated latest entry precedes today.
MaxGap == 5
\* Largest number of days by which the generated latest entry follows today.
MaxFuture == 2
\* Largest number of data rows that follow the first data row of a body.
MaxTail == 2
\* Number of times the local date may roll over while requests are in flight.
MaxTicks == 1
\* Number of concurrent requests of the concurrent specification.
NumReqs == 2

\* ------------------------------------------------------------------- bytes

\* Bytes >= 0x80 of the input alphabet: C3 A9 is the UTF-8 encoding of U+00E9,
\* FF never occurs in UTF-8.
HighBytes == {"xC3", "xA9", "xFF"}

Digits == {"0", "1", "2", "3", "4", "5", "6", "7", "8", "9"}

\* char::is_whitespace on the input alphabet (str::trim, str::trim_start):
\* space, tab, line feed, vertical tab, form feed, carriage return.
Whitespace == {" ", "\t", "\n", "x0B", "\f", "\r"}

\* The ASCII control bytes of the input alphabet other than the tab.
ControlBytes == {"\n", "x0B", "\f", "\r"}

DigitVal(c) ==
  CASE c = "0" -> 0 [] c = "1" -> 1 [] c = "2" -> 2 [] c = "3" -> 3
    [] c = "4" -> 4 [] c = "5" -> 5 [] c = "6" -> 6 [] c = "7" -> 7
    [] c = "8" -> 8 [] c = "9" -> 9

\* The suffix of s that starts at index i (1-based); empty when i > Len(s).
Drop(s, i) == IF i > Len(s) THEN <<>> ELSE SubSeq(s, i, Len(s))

\* ------------------------------------------------------- chrono::NaiveDate

\* Years chrono's NaiveDate can represent.
MIN_YEAR == -262143
MAX_YEAR == 262142

None == [some |-> FALSE]
Some(v) == [some |-> TRUE, val |-> v]

Date(y, m, d) == [y |-> y, m |-> m, d |-> d]

IsLeap(y) == (y % 4 = 0) /\ ((y % 100 # 0) \/ (y % 400 = 0))

DaysInMonth(y, m) ==
  CASE m \in {1, 3, 5, 7, 8, 10, 12} -> 31
    [] m \in {4, 6, 9, 11} -> 30
    [] m = 2 -> IF IsLeap(y) THEN 29 ELSE 28

\* NaiveDate::from_ymd_opt: the calendar date, or None when it does not exist.
from_ymd_opt(y, m, d) ==
  IF /\ y >= MIN_YEAR /\ y <= MAX_YEAR
     /\ m >= 1 /\ m <= 12
     /\ d >= 1 /\ d <= DaysInMonth(y, m)
  THEN Some(Date(y, m, d))
  ELSE None

\* Days since 1970-01-01 of a proleptic Gregorian date (floor division).
DaysFromCivil(dt) ==
  LET y   == IF dt.m <= 2 THEN dt.y - 1 ELSE dt.y
      era == y \div 400
      yoe == y - era * 400
      mp  == IF dt.m > 2 THEN dt.m - 3 ELSE dt.m + 9
      doy == (153 * mp + 2) \div 5 + dt.d - 1
      doe == yoe * 365 + yoe \div 4 - yoe \div 100 + doy
  IN  era * 146097 + doe - 719468

\* The proleptic Gregorian date of a day number.
CivilFromDays(n) ==
  LET z   == n + 719468
      era == z \div 146097
      doe == z - era * 146097
      yoe == (doe - doe \div 1460 + doe \div 36524 - doe \div 146096) \div 365
      doy == doe - (365 * yoe + yoe \div 4 - yoe \div 100)
      mp  == (5 * doy + 2) \div 153
      d   == doy - (153 * mp + 2) \div 5 + 1
      m   == IF mp < 10 THEN mp + 3 ELSE mp - 9
      y   == yoe + era * 400
  IN  Date(IF m <= 2 THEN y + 1 ELSE y, m, d)

\* num_days counting both end days (an off-by-one).
num_days_inclusive(a, b) == DaysFromCivil(a) - DaysFromCivil(b) + 1

\* num_days without its sign (.num_days().abs()).
num_days_abs(a, b) ==
  IF DaysFromCivil(a) >= DaysFromCivil(b)
  THEN DaysFromCivil(a) - DaysFromCivil(b)
  ELSE DaysFromCivil(b) - DaysFromCivil(a)

\* (a - b).num_days(): the signed number of whole days from b to a.
num_days(a, b) == DaysFromCivil(a) - DaysFromCivil(b)

\* NaiveDate::checked_sub_days(Days::new(n)): None outside the representable range.
checked_sub_days(dt, n) ==
  LET r == DaysFromCivil(dt) - n
  IN  IF /\ r >= DaysFromCivil(Date(MIN_YEAR, 1, 1))
         /\ r <= DaysFromCivil(Date(MAX_YEAR, 12, 31))
      THEN Some(CivilFromDays(r))
      ELSE None

\* Number of leading bytes of s that are digits, at most max.
RECURSIVE CountDigits(_, _)
CountDigits(s, max) ==
  IF max = 0 \/ s = <<>> \/ Head(s) \notin Digits THEN 0
  ELSE 1 + CountDigits(Tail(s), max - 1)

\* The decimal value of a sequence of digits.
RECURSIVE DecVal(_)
DecVal(s) ==
  IF s = <<>> THEN 0
  ELSE 10 * DecVal(SubSeq(s, 1, Len(s) - 1)) + DigitVal(s[Len(s)])

\* s without its leading whitespace (numeric items skip it).
RECURSIVE trim_start(_)
trim_start(s) ==
  IF s # <<>> /\ Head(s) \in Whitespace THEN trim_start(Tail(s)) ELSE s

\* chrono's scan of one numeric item: 1..max digits after optional whitespace;
\* a year may carry a sign, and then takes as many digits as follow.
ScanNumber(s0, max, signed) ==
  LET s    == trim_start(s0)
      sgn  == signed /\ s # <<>> /\ Head(s) \in {"-", "+"}
      body == IF sgn THEN Tail(s) ELSE s
      n    == CountDigits(body, IF sgn THEN Len(body) ELSE max)
      v    == DecVal(SubSeq(body, 1, n))
  IN  IF n = 0 THEN None
      ELSE Some([val |-> IF sgn /\ Head(s) = "-" THEN 0 - v ELSE v,
                 rest |-> Drop(body, n + 1)])

\* NaiveDate::parse_from_str(s, "%Y-%m-%d").
parse_from_str(s) ==
  LET yr == ScanNumber(s, 4, TRUE)
  IN  IF ~yr.some \/ yr.val.rest = <<>> \/ Head(yr.val.rest) # "-" THEN None
      ELSE LET mo == ScanNumber(Tail(yr.val.rest), 2, FALSE)
           IN  IF ~mo.some \/ mo.val.rest = <<>> \/ Head(mo.val.rest) # "-" THEN None
               ELSE LET dy == ScanNumber(Tail(mo.val.rest), 2, FALSE)
                    IN  IF ~dy.some \/ dy.val.rest # <<>> THEN None
                        ELSE from_ymd_opt(yr.val.val, mo.val.val, dy.val.val)

\* ------------------------------------------------------------ MoodEntry

\* The fields of struct MoodEntry, in declaration order: the record key of
\* the model and the column name serde matches against the CSV header.
MoodEntryFields == <<
  [key |-> "full_date", name |-> <<"f", "u", "l", "l", "_", "d", "a", "t", "e">>],
  [key |-> "date", name |-> <<"d", "a", "t", "e">>],
  [key |-> "weekday", name |-> <<"w", "e", "e", "k", "d", "a", "y">>],
  [key |-> "time", name |-> <<"t", "i", "m", "e">>],
  [key |-> "mood", name |-> <<"m", "o", "o", "d">>],
  [key |-> "activities", name |-> <<"a", "c", "t", "i", "v", "i", "t", "i", "e", "s">>],
  [key |-> "note_title", name |-> <<"n", "o", "t", "e", "_", "t", "i", "t", "l", "e">>],
  [key |-> "note", name |-> <<"n", "o", "t", "e">>]
>>

FieldKeys == {MoodEntryFields[i].key : i \in DOMAIN MoodEntryFields}

FieldNames == {MoodEntryFields[i].name : i \in DOMAIN MoodEntryFields}

Ok(v) == [ok |-> TRUE, val |-> v]
Err == [ok |-> FALSE]

\* ------------------------------------------------------------ csv reader

\* str::trim on one field (Trim::All).
RECURSIVE trim_end(_)
trim_end(s) ==
  IF s # <<>> /\ s[Len(s)] \in Whitespace
  THEN trim_end(SubSeq(s, 1, Len(s) - 1))
  ELSE s

trim(s) == trim_end(trim_start(s))

\* The pieces of s between the occurrences of a byte of seps (at least one piece).
RECURSIVE Split(_, _)
Split(s, seps) ==
  IF \A i \in DOMAIN s : s[i] \notin seps THEN <<s>>
  ELSE LET i == CHOOSE k \in DOMAIN s :
                  s[k] \in seps /\ \A j \in 1..(k - 1) : s[j] \notin seps
       IN  <<SubSeq(s, 1, i - 1)>> \o Split(Drop(s, i + 1), seps)

\* One line of CSV text as a record: its comma-separated fields, each trimmed.
ReadRecord(line) ==
  LET fs == Split(line, {","}) IN [i \in DOMAIN fs |-> trim(fs[i])]

\* The records of a CSV text: one per line, record terminators \n, \r and \r\n,
\* empty lines skipped.
ReadRecords(text) ==
  LET lines == SelectSeq(Split(text, {"\n", "\r"}), LAMBDA l : l # <<>>)
  IN  [i \in DOMAIN lines |-> ReadRecord(lines[i])]

\* serde's decoding of one record into a MoodEntry by header name: every
\* header position needs a field of the record (fields past the header are
\* ignored, columns that name no struct field are read and dropped), and
\* every struct field must be named by exactly one header column.
DeserializeRecord(headers, rec) ==
  IF /\ Len(rec) >= Len(headers)
     /\ \A n \in FieldNames : Cardinality({i \in DOMAIN headers : headers[i] = n}) = 1
  THEN Ok([k \in FieldKeys |->
            LET f == CHOOSE j \in DOMAIN MoodEntryFields : MoodEntryFields[j].key = k
                i == CHOOSE c \in DOMAIN headers : headers[c] = MoodEntryFields[f].name
            IN  rec[i]])
  ELSE Err

\* The loop of parse_csv_string skipping a record that does not decode
\* instead of returning its error.
RECURSIVE DeserializeLoop_SkipBad(_, _, _)
DeserializeLoop_SkipBad(headers, recs, entries) ==
  IF recs = <<>> THEN Ok(entries)
  ELSE LET result == DeserializeRecord(headers, Head(recs))
       IN  DeserializeLoop_SkipBad(headers, Tail(recs),
             IF result.ok THEN Append(entries, result.val) ELSE entries)

\* The loop of parse_csv_string over rdr.deserialize(): push each decoded
\* record, return the first error (the ? operator).
RECURSIVE DeserializeLoop(_, _, _)
DeserializeLoop(headers, recs, entries) ==
  IF recs = <<>> THEN Ok(entries)
  ELSE LET result == DeserializeRecord(headers, Head(recs))
       IN  IF ~result.ok THEN Err
           ELSE DeserializeLoop(headers, Tail(recs), Append(entries, result.val))

\* parse_csv_string: the first record is the header row.
parse_csv_string(csv_data) ==
  LET recs == ReadRecords(csv_data)
  IN  IF recs = <<>> THEN Ok(<<>>)
      ELSE DeserializeLoop(Head(recs), Tail(recs), <<>>)

\* ------------------------------------------------------------ handler parts

\* The expected value of the x-authenticate header.
Daylio == <<"d", "a", "y", "l", "i", "o">>

\* HeaderValue::to_str: Ok only when every byte is visible ASCII or a tab.
to_str(v) ==
  IF \A i \in DOMAIN v : v[i] \notin HighBytes \cup ControlBytes THEN Ok(v) ELSE Err

\* The gate of handler: "pass", "unauthorized", or "panic" when unwrap() is
\* called on the Err of to_str.
Authenticate(authenticate) ==
  IF ~authenticate.some THEN "unauthorized"
  ELSE IF ~to_str(authenticate.val).ok THEN "panic"
  ELSE IF to_str(authenticate.val).val # Daylio THEN "unauthorized"
  ELSE "pass"

\* Whether the bytes are well-formed UTF-8, on the input alphabet: FF is
\* never valid, the lead byte C3 needs the continuation byte A9 after it, and
\* a continuation byte needs a lead byte before it.
ValidUtf8(b) ==
  \A i \in DOMAIN b :
    CASE b[i] = "xFF" -> FALSE
      [] b[i] = "xC3" -> i < Len(b) /\ b[i + 1] = "xA9"
      [] b[i] = "xA9" -> i > 1 /\ b[i - 1] = "xC3"
      [] OTHER -> TRUE

\* String::from_utf8: the same bytes as a String, or an error.
from_utf8(b) == IF ValidUtf8(b) THEN Ok(b) ELSE Err

\* The accumulation loop counting back from yesterday (today - (i + 1)).
RECURSIVE MissingLoop_FromYesterday(_, _, _, _)
MissingLoop_FromYesterday(today, outstanding_entries, i, missing_entries) ==
  IF i >= outstanding_entries THEN missing_entries
  ELSE LET date == checked_sub_days(today, i + 1)
       IN  IF date.some
           THEN MissingLoop_FromYesterday(today, outstanding_entries, i + 1,
                                          Append(missing_entries, date.val))
           ELSE <<>>

\* The accumulation loop of get_missing_entry_dates, from index i.
RECURSIVE MissingLoop(_, _, _, _)
MissingLoop(today, outstanding_entries, i, missing_entries) ==
  IF i >= outstanding_entries THEN missing_entries
  ELSE LET date == checked_sub_days(today, i)
       IN  IF date.some
           THEN MissingLoop(today, outstanding_entries, i + 1,
                            Append(missing_entries, date.val))
           ELSE <<>>

Panic == [panic |-> TRUE]
Returned(v) == [panic |-> FALSE, val |-> v]

\* get_missing_entry_dates with the local date it reads passed as today:
\* it panics on entries[0] of an empty vector and on unwrap() of a date that
\* does not parse.
get_missing_entry_dates(entries, today) ==
  IF entries = <<>> THEN Panic
  ELSE LET latest_entry == parse_from_str(entries[1].full_date)
       IN  IF ~latest_entry.some THEN Panic
           ELSE LET outstanding_entries == num_days(today, latest_entry.val)
                IN  IF outstanding_entries = 0 THEN Returned(<<>>)
                    ELSE Returned(MissingLoop(today, outstanding_entries, 0, <<>>))

\* ------------------------------------------------------------------ inputs

\* The calendar day before dt, by the rules of the Gregorian calendar.
PrevDay(dt) ==
  IF dt.d > 1 THEN Date(dt.y, dt.m, dt.d - 1)
  ELSE IF dt.m > 1 THEN Date(dt.y, dt.m - 1, DaysInMonth(dt.y, dt.m - 1))
  ELSE Date(dt.y - 1, 12, 31)

\* The calendar day after dt.
NextDay(dt) ==
  IF dt.d < DaysInMonth(dt.y, dt.m) THEN Date(dt.y, dt.m, dt.d + 1)
  ELSE IF dt.m < 12 THEN Date(dt.y, dt.m + 1, 1)
  ELSE Date(dt.y + 1, 1, 1)

RECURSIVE DaysBefore(_, _)
DaysBefore(dt, k) == IF k = 0 THEN dt ELSE DaysBefore(PrevDay(dt), k - 1)

RECURSIVE DaysAfter(_, _)
DaysAfter(dt, k) == IF k = 0 THEN dt ELSE DaysAfter(NextDay(dt), k - 1)

DigitChar(n) ==
  CASE n = 0 -> "0" [] n = 1 -> "1" [] n = 2 -> "2" [] n = 3 -> "3"
    [] n = 4 -> "4" [] n = 5 -> "5" [] n = 6 -> "6" [] n = 7 -> "7"
    [] n = 8 -> "8" [] n = 9 -> "9"

\* n in decimal, zero-padded to w digits.
RECURSIVE Padded(_, _)
Padded(n, w) ==
  IF w = 0 THEN <<>> ELSE Append(Padded(n \div 10, w - 1), DigitChar(n % 10))

\* A date of the years 0..9999 written as YYYY-MM-DD, as the export does.
FormatDate(dt) ==
  Padded(dt.y, 4) \o <<"-">> \o Padded(dt.m, 2) \o <<"-">> \o Padded(dt.d, 2)

\* A date written with whitespace that trimming the field leaves in place: a
\* form feed before the month and a vertical tab before the day.
SpacedDate(dt) ==
  Padded(dt.y, 4) \o <<"-", "\f">> \o Padded(dt.m, 2) \o <<"-", "x0B">> \o Padded(dt.d, 2)

\* The local dates a run starts on: after a month end, after a leap day,
\* after the end of February of a common and of a century year, on a new
\* year's day, and the spec's end-to-end date.
StartDates == {
  Date(2024, 2, 2), Date(2024, 3, 1), Date(2023, 3, 2), Date(2100, 3, 1),
  Date(2024, 1, 1), Date(2024, 5, 4)
}

\* full_date texts that are not dates.
BadDates == {
  <<"2", "0", "2", "4", "-", "0", "2", "-", "3", "0">>,
  <<"2", "0", "2", "3", "-", "0", "2", "-", "2", "9">>,
  <<"2", "0", "2", "4", "-", "1", "3", "-", "0", "1">>,
  <<"2", "0", "2", "4", "-", "0", "5", "-", "0", "1", "x">>,
  <<"n", "/", "a">>,
  <<>>
}

\* The full_date texts of a first data row, relative to the local date:
\* today, up to MaxGap days before it, up to MaxFuture days after it, and
\* texts that are no date.
FirstDates(today) ==
  {FormatDate(DaysBefore(today, g)) : g \in 0..MaxGap}
    \cup {FormatDate(DaysAfter(today, g)) : g \in 1..MaxFuture}
    \cup {SpacedDate(DaysBefore(today, 3)), SpacedDate(today)}
    \cup BadDates

HeaderLine == <<"f", "u", "l", "l", "_", "d", "a", "t", "e", ",", "d", "a", "t", "e", ",", "w", "e", "e", "k", "d", "a", "y", ",", "t", "i", "m", "e", ",", "m", "o", "o", "d", ",", "a", "c", "t", "i", "v", "i", "t", "i", "e", "s", ",", "n", "o", "t", "e", "_", "t", "i", "t", "l", "e", ",", "n", "o", "t", "e">>

\* Header rows: the export's, one with the columns reordered, padded and an
\* unknown column added, one without the note column, one naming date twice.
HeaderVariants == {
  <<"n", "o", "t", "e", ",", " ", "n", "o", "t", "e", "_", "t", "i", "t", "l", "e", " ", ",", "a", "c", "t", "i", "v", "i", "t", "i", "e", "s", ",", "e", "x", "t", "r", "a", ",", "m", "o", "o", "d", ",", "t", "i", "m", "e", ",", "w", "e", "e", "k", "d", "a", "y", ",", "d", "a", "t", "e", ",", "f", "u", "l", "l", "_", "d", "a", "t", "e">>,
  <<"f", "u", "l", "l", "_", "d", "a", "t", "e", ",", "d", "a", "t", "e", ",", "w", "e", "e", "k", "d", "a", "y", ",", "t", "i", "m", "e", ",", "m", "o", "o", "d", ",", "a", "c", "t", "i", "v", "i", "t", "i", "e", "s", ",", "n", "o", "t", "e", "_", "t", "i", "t", "l", "e">>,
  <<"f", "u", "l", "l", "_", "d", "a", "t", "e", ",", "d", "a", "t", "e", ",", "d", "a", "t", "e", ",", "w", "e", "e", "k", "d", "a", "y", ",", "t", "i", "m", "e", ",", "m", "o", "o", "d", ",", "a", "c", "t", "i", "v", "i", "t", "i", "e", "s", ",", "n", "o", "t", "e", "_", "t", "i", "t", "l", "e", ",", "n", "o", "t", "e">>
}

\* The fields that follow full_date in the first data row.
RowRest == <<",", "M", "a", "y", " ", "1", ",", "W", "e", "d", ",", "0", "9", ":", "0", "0", ",", "h", "a", "p", "p", "y", ",", "r", "u", "n", ",", ",">>

\* Later data rows: a full row, a row with fields padded by spaces, a tab, a
\* form feed and a vertical tab, a row with too few fields, a row with one
\* field too many.
TailRows == {
  <<"2", "0", "2", "3", "-", "1", "2", "-", "3", "0", ",", "D", "e", "c", " ", "3", "0", ",", "S", "a", "t", ",", "2", "1", ":", "1", "5", ",", "m", "e", "h", ",", "r", "e", "a", "d", ",", "t", ",", "n">>,
  <<" ", "2", "0", "2", "3", "-", "1", "2", "-", "2", "9", " ", ",", "\t", "D", "e", "c", " ", "2", "9", " ", ",", "\f", "F", "r", "i", "x0B", ",", " ", "0", "8", ":", "0", "0", " ", ",", "g", "o", "o", "d", ",", ",", ",">>,
  <<"2", "0", "2", "3", "-", "1", "2", "-", "2", "8", ",", "D", "e", "c", " ", "2", "8", ",", "T", "h", "u">>,
  <<"2", "0", "2", "3", "-", "1", "2", "-", "2", "7", ",", "D", "e", "c", " ", "2", "7", ",", "W", "e", "d", ",", "0", "7", ":", "3", "0", ",", "b", "a", "d", ",", ",", ",", ",", "m", "o", "r", "e">>
}

\* The sequences of at most n later rows.
RECURSIVE Tails(_)
Tails(n) ==
  IF n = 0 THEN {<<>>}
  ELSE Tails(n - 1) \cup {Append(t, r) : t \in {u \in Tails(n - 1) : Len(u) = n - 1}, r \in TailRows}

\* Lines joined into a text, each ended by a line feed.
RECURSIVE Lines(_)
Lines(ls) == IF ls = <<>> THEN <<>> ELSE Head(ls) \o <<"\n">> \o Lines(Tail(ls))

\* Request bodies, relative to the local date.
Bodies(today) ==
  LET first(d) == d \o RowRest
      recent   == first(FormatDate(DaysBefore(today, 2)))
  IN  \* every first date, alone and followed by a full row
      {Lines(<<HeaderLine, first(d)>> \o t) : d \in FirstDates(today), t \in Tails(1)}
      \* a recent first row followed by every sequence of later rows
      \cup {Lines(<<HeaderLine, recent>> \o t) : t \in Tails(MaxTail)}
      \* other header rows
      \cup {Lines(<<h, recent>>) : h \in HeaderVariants}
      \* no data row, no row at all, blank lines, CRLF line ends, no final line end
      \cup {Lines(<<HeaderLine>>), <<>>, <<"\n", "\n">>,
            HeaderLine \o <<"\r", "\n">> \o recent \o <<"\r", "\n">>,
            HeaderLine \o <<"\n">> \o recent}
      \* a two-byte character in a note, and bytes that are not UTF-8
      \cup {Lines(<<HeaderLine, recent \o <<"xC3", "xA9">>>>),
            Lines(<<HeaderLine, recent \o <<"xFF">>>>),
            <<"xC3">>}

\* Values of the x-authenticate header: None when the request has none.
HeaderValues == {
  None,
  Some(<<"d", "a", "y", "l", "i", "o">>),
  Some(<<"D", "a", "y", "l", "i", "o">>),
  Some(<<"D", "A", "Y", "L", "I", "O">>),
  Some(<<>>),
  Some(<<"w", "r", "o", "n", "g">>),
  Some(<<"d", "a", "y", "l", "i", "o", "2">>),
  Some(<<"xFF">>),
  Some(<<"d", "a", "y", "l", "i", "o", "xFF">>)
}

\* ------------------------------------------------------------------- state

VARIABLES
  headers,          \* per request: its x-authenticate header (handler's headers.get)
  body,             \* per request: its body bytes
  pc,               \* per request: the stage of handler it is about to run
  body_str,         \* per request: handler's body_str, once decoded
  entries,          \* per request: handler's entries, once parsed
  missing_entries,  \* per request: handler's missing_entries, once computed
  outcome,          \* per request: how its handling ended
  stages,           \* per request: the stages run so far, in order
  now,              \* per request: the local date get_missing_entry_dates read
  today,            \* the local date (Local::now().date_naive())
  ticks             \* how often the local date has rolled over

vars == <<headers, body, pc, body_str, entries, missing_entries, outcome,
          stages, now, today, ticks>>

Reqs == DOMAIN pc

\* The state of freshly received requests rs with the given headers and bodies.
Received(rs, hs, bs, date) ==
  /\ headers = hs
  /\ body = bs
  /\ pc = [r \in rs |-> "gate"]
  /\ body_str = [r \in rs |-> None]
  /\ entries = [r \in rs |-> None]
  /\ missing_entries = [r \in rs |-> None]
  /\ outcome = [r \in rs |-> "running"]
  /\ stages = [r \in rs |-> <<>>]
  /\ now = [r \in rs |-> None]
  /\ today = date
  /\ ticks = 0

\* One request, any header value, any body.
Init ==
  \E date \in StartDates : \E h \in HeaderValues : \E b \in Bodies(date) :
    Received({1}, [r \in {1} |-> h], [r \in {1} |-> b], date)

Finish(r, how) ==
  /\ pc' = [pc EXCEPT ![r] = "done"]
  /\ outcome' = [outcome EXCEPT ![r] = how]

\* handler, lines 53-57: the x-authenticate gate.
Gate(r) ==
  /\ pc[r] = "gate"
  /\ stages' = [stages EXCEPT ![r] = Append(@, "gate")]
  /\ LET res == Authenticate(headers[r])
     IN  CASE res = "pass" ->
                /\ pc' = [pc EXCEPT ![r] = "decode"]
                /\ UNCHANGED outcome
           [] res = "unauthorized" -> Finish(r, "Unauthorized")
           [] res = "panic" -> Finish(r, "Panic")
  /\ UNCHANGED <<headers, body, body_str, entries, missing_entries, now, today, ticks>>

\* The decode stage going on with the raw bytes when they are not UTF-8.
Decode_Lossy(r) ==
  /\ pc[r] = "decode"
  /\ stages' = [stages EXCEPT ![r] = Append(@, "decode")]
  /\ body_str' = [body_str EXCEPT ![r] = Some(body[r])]
  /\ pc' = [pc EXCEPT ![r] = "parse"]
  /\ UNCHANGED <<headers, body, entries, missing_entries, outcome, now, today, ticks>>

\* handler, lines 59-66: the body as UTF-8 text.
Decode(r) ==
  /\ pc[r] = "decode"
  /\ stages' = [stages EXCEPT ![r] = Append(@, "decode")]
  /\ LET res == from_utf8(body[r])
     IN  IF res.ok
         THEN /\ body_str' = [body_str EXCEPT ![r] = Some(res.val)]
              /\ pc' = [pc EXCEPT ![r] = "parse"]
              /\ UNCHANGED outcome
         ELSE /\ Finish(r, "EncodingError")
              /\ UNCHANGED body_str
  /\ UNCHANGED <<headers, body, entries, missing_entries, now, today, ticks>>

\* handler, lines 68-74: the text as mood entries.
Parse(r) ==
  /\ pc[r] = "parse"
  /\ stages' = [stages EXCEPT ![r] = Append(@, "parse")]
  /\ LET res == parse_csv_string(body_str[r].val)
     IN  IF res.ok
         THEN /\ entries' = [entries EXCEPT ![r] = Some(res.val)]
              /\ pc' = [pc EXCEPT ![r] = "gaps"]
              /\ UNCHANGED outcome
         ELSE /\ Finish(r, "ParseError")
              /\ UNCHANGED entries
  /\ UNCHANGED <<headers, body, body_str, missing_entries, now, today, ticks>>

\* The gap stage reading the entries from a place all requests share: those
\* of whichever request has parsed, not its own.
DetectGaps_SharedEntries(r) ==
  /\ pc[r] = "gaps"
  /\ stages' = [stages EXCEPT ![r] = Append(@, "gaps")]
  /\ now' = [now EXCEPT ![r] = Some(today)]
  /\ LET q   == CHOOSE q \in Reqs : entries[q].some
         res == get_missing_entry_dates(entries[q].val, today)
     IN  IF res.panic
         THEN /\ Finish(r, "Panic")
              /\ UNCHANGED missing_entries
         ELSE /\ missing_entries' = [missing_entries EXCEPT ![r] = Some(res.val)]
              /\ Finish(r, "Missing")
  /\ UNCHANGED <<headers, body, body_str, entries, today, ticks>>

\* handler, lines 76-78: the missing dates, computed from the local date
\* read at that moment, and printed.
DetectGaps(r) ==
  /\ pc[r] = "gaps"
  /\ stages' = [stages EXCEPT ![r] = Append(@, "gaps")]
  /\ now' = [now EXCEPT ![r] = Some(today)]
  /\ LET res == get_missing_entry_dates(entries[r].val, today)
     IN  IF res.panic
         THEN /\ Finish(r, "Panic")
              /\ UNCHANGED missing_entries
         ELSE /\ missing_entries' = [missing_entries EXCEPT ![r] = Some(res.val)]
              /\ Finish(r, "Missing")
  /\ UNCHANGED <<headers, body, body_str, entries, today, ticks>>

\* The local date rolls over at midnight.
Midnight ==
  /\ ticks < MaxTicks
  /\ ticks' = ticks + 1
  /\ today' = NextDay(today)
  /\ UNCHANGED <<headers, body, pc, body_str, entries, missing_entries,
                 outcome, stages, now>>

Next ==
  \/ \E r \in Reqs : Gate(r)
  \/ \E r \in Reqs : Decode(r)
  \/ \E r \in Reqs : Parse(r)
  \/ \E r \in Reqs : DetectGaps(r)
  \/ Midnight

Spec == Init /\ [][Next]_vars

\* ------------------------------------------- concurrent requests (SpecConc)

\* Bodies of the concurrent specification: a gap of two days, a current
\* journal, a header row alone, a data row with too few fields, bytes that
\* are not UTF-8.
ConcBodies(date) ==
  LET row(d) == FormatDate(d) \o RowRest
  IN  {Lines(<<HeaderLine, row(DaysBefore(date, 2))>>),
       Lines(<<HeaderLine, row(date)>>),
       Lines(<<HeaderLine>>),
       Lines(<<HeaderLine, <<"2", "0", "2", "4">>>>),
       Lines(<<HeaderLine, row(date) \o <<"xFF">>>>)}

\* Requests of the concurrent specification: every body behind the right
\* header, and one body behind no header, a wrong one and one that is not text.
ConcRequests(date) ==
  {[h |-> Some(Daylio), b |-> b] : b \in ConcBodies(date)}
    \cup {[h |-> h, b |-> Lines(<<HeaderLine>>)] :
            h \in {None, Some(<<"w", "r", "o", "n", "g">>), Some(<<"xFF">>)}}

InitConc ==
  LET rs == 1..NumReqs
  IN  \E req \in [rs -> ConcRequests(Date(2024, 3, 1))] :
        Received(rs, [r \in rs |-> req[r].h], [r \in rs |-> req[r].b], Date(2024, 3, 1))

SpecConc == InitConc /\ [][Next]_vars

\* handler as a function of one request and the local date it reads: the
\* outcome and the missing dates of a request handled alone.
HandleAlone(h, b, date) ==
  LET auth == Authenticate(h)
      text == from_utf8(b)
      rows == parse_csv_string(text.val)
      gaps == get_missing_entry_dates(rows.val, date)
  IN  IF auth = "unauthorized" THEN <<"Unauthorized", None>>
      ELSE IF auth = "panic" THEN <<"Panic", None>>
      ELSE IF ~text.ok THEN <<"EncodingError", None>>
      ELSE IF ~rows.ok THEN <<"ParseError", None>>
      ELSE IF gaps.panic THEN <<"Panic", None>>
      ELSE <<"Missing", Some(gaps.val)>>

\* ------------------------------------------------------------------ claims

\* a is a later calendar date than b.
Later(a, b) ==
  \/ a.y > b.y
  \/ a.y = b.y /\ a.m > b.m
  \/ a.y = b.y /\ a.m = b.m /\ a.d > b.d

\* The dates from d back to the day after l, most recent first, stepping one
\* calendar day at a time (d is not before l).
RECURSIVE Countdown(_, _)
Countdown(d, l) == IF d = l THEN <<>> ELSE <<d>> \o Countdown(PrevDay(d), l)

\* The gap detector has run for request r on a non-empty entries sequence.
Detected(r) == now[r].some /\ entries[r].val # <<>>

\* The date of the first entry of request r, when it is one.
Latest(r) == parse_from_str(entries[r].val[1].full_date)

\* C1: when the first entry's date L is valid and earlier than the local date, the
\* gap detector returns the dates today, today-1, ..., L+1 in that order, each one
\* calendar day before the previous one, today - L of them, and never L itself.
C1_MissingDatesCountDown ==
  \A r \in Reqs :
    (Detected(r) /\ Latest(r).some /\ Later(now[r].val, Latest(r).val)) =>
      /\ outcome[r] = "Missing"
      /\ missing_entries[r].val = Countdown(now[r].val, Latest(r).val)
      /\ Len(missing_entries[r].val) >= 1
      /\ \A i \in DOMAIN missing_entries[r].val :
           missing_entries[r].val[i] # Latest(r).val

\* C1 witness: a gap of at least three days that crosses a month boundary.
C1_Witness ==
  \E r \in Reqs :
    /\ Detected(r) /\ Latest(r).some /\ Later(now[r].val, Latest(r).val)
    /\ missing_entries[r].some
    /\ Len(missing_entries[r].val) >= 3
    /\ missing_entries[r].val[1].m # Latest(r).val.m

\* C2: when the first entry's date is the local date, the gap detector returns
\* the empty sequence, whatever the other entries are.
C2_CaughtUpIsEmpty ==
  \A r \in Reqs :
    (Detected(r) /\ Latest(r).some /\ Latest(r).val = now[r].val) =>
      outcome[r] = "Missing" /\ missing_entries[r].val = <<>>

\* C2 witness: the gap detector ran on two entries, the first dated today.
C2_Witness ==
  \E r \in Reqs :
    /\ Detected(r) /\ Latest(r).some /\ Latest(r).val = now[r].val
    /\ Len(entries[r].val) >= 2
    /\ pc[r] = "done"

\* The gate has run for request r.
Gated(r) == Len(stages[r]) >= 1

\* Request r went past the gate.
PastGate(r) == Gated(r) /\ (pc[r] = "decode" \/ Len(stages[r]) >= 2)

\* C3: a request goes past the gate if and only if its x-authenticate header is
\* present with the value "daylio"; with any other value, or without the header,
\* it is rejected as unauthorized.
C3_GateExactToken ==
  \A r \in Reqs :
    Gated(r) =>
      /\ PastGate(r) <=> headers[r] = Some(Daylio)
      /\ headers[r] # Some(Daylio) => outcome[r] = "Unauthorized"

\* C4: header absent, header with another value, and header with a value that is
\* not text all end the request as Unauthorized at the gate, the body neither
\* decoded nor parsed and the gap detector not run.
C4_GateFailuresAlike ==
  \A r \in Reqs :
    (Gated(r) /\ \/ ~headers[r].some
                 \/ ~to_str(headers[r].val).ok
                 \/ to_str(headers[r].val).val # Daylio) =>
      /\ outcome[r] = "Unauthorized"
      /\ stages[r] = <<"gate">>
      /\ ~body_str[r].some /\ ~entries[r].some /\ ~missing_entries[r].some

\* The stages of handler, in order.
Pipeline == <<"gate", "decode", "parse", "gaps">>

\* C5: the stages run in the order gate, decode, parse, gap detection, each only
\* after every earlier one succeeded: no parse or gap detection after a failed
\* decode, no gap detection and no missing-dates result after a failed parse.
C5_StagesInOrder ==
  \A r \in Reqs :
    /\ Len(stages[r]) <= Len(Pipeline)
    /\ stages[r] = SubSeq(Pipeline, 1, Len(stages[r]))
    /\ Len(stages[r]) >= 2 => Authenticate(headers[r]) = "pass"
    /\ Len(stages[r]) >= 3 => from_utf8(body[r]).ok
    /\ Len(stages[r]) >= 4 => parse_csv_string(body[r]).ok
    /\ outcome[r] = "EncodingError" => stages[r] = SubSeq(Pipeline, 1, 2)
    /\ outcome[r] = "ParseError" => stages[r] = SubSeq(Pipeline, 1, 3)
    /\ (outcome[r] = "Missing" \/ missing_entries[r].some \/ now[r].some) =>
         stages[r] = Pipeline
    /\ outcome[r] \in {"EncodingError", "ParseError"} =>
         ~missing_entries[r].some /\ ~now[r].some

\* C5 witness: a request that failed at the parse stage.
C5_Witness ==
  \E r \in Reqs : outcome[r] = "ParseError" /\ pc[r] = "done" /\ body_str[r].some

\* C6: every request ends as Unauthorized, Encoding Error, Parse Error or with a
\* missing-dates result, and never aborts.
C6_NeverAborts ==
  \A r \in Reqs :
    pc[r] = "done" => outcome[r] \in {"Unauthorized", "EncodingError", "ParseError", "Missing"}

\* The data records of the text request r decoded, and their header record.
DataRows(r) ==
  LET recs == ReadRecords(body_str[r].val) IN IF recs = <<>> THEN <<>> ELSE Tail(recs)

HeaderRow(r) ==
  LET recs == ReadRecords(body_str[r].val) IN IF recs = <<>> THEN <<>> ELSE Head(recs)

\* C7: the parser returns an error exactly when some data row cannot be decoded,
\* and otherwise one entry per data row, in row order (none for a header alone).
C7_ParseAllOrNothing ==
  \A r \in Reqs :
    Len(stages[r]) >= 3 =>
      LET bad == {i \in DOMAIN DataRows(r) : ~DeserializeRecord(HeaderRow(r), DataRows(r)[i]).ok}
      IN  /\ bad # {} <=> outcome[r] = "ParseError"
          /\ bad # {} <=> ~entries[r].some
          /\ bad = {} =>
               /\ Len(entries[r].val) = Len(DataRows(r))
               /\ \A i \in DOMAIN DataRows(r) :
                    DeserializeRecord(HeaderRow(r), DataRows(r)[i]) = Ok(entries[r].val[i])

\* C7 witness: a parse that failed on the middle one of three data rows.
C7_Witness ==
  \E r \in Reqs :
    /\ outcome[r] = "ParseError"
    /\ Len(DataRows(r)) = 3
    /\ DeserializeRecord(HeaderRow(r), DataRows(r)[1]).ok
    /\ ~DeserializeRecord(HeaderRow(r), DataRows(r)[2]).ok
    /\ DeserializeRecord(HeaderRow(r), DataRows(r)[3]).ok

\* C9: whatever the interleaving, what a request has computed so far and how it
\* ends are those of the request handled alone: a function of its own header,
\* its own body and the local date it read.
C9_RequestsIndependent ==
  \A r \in Reqs :
    /\ body_str[r].some => from_utf8(body[r]) = Ok(body_str[r].val)
    /\ entries[r].some => parse_csv_string(body[r]) = Ok(entries[r].val)
    /\ pc[r] = "done" =>
         <<outcome[r], missing_entries[r]>> =
           HandleAlone(headers[r], body[r], IF now[r].some THEN now[r].val ELSE today)

\* C9 witness: two requests ended with different missing dates, having read
\* different local dates (the date rolled over between their gap stages).
C9_Witness ==
  \E r, q \in Reqs :
    /\ r # q
    /\ outcome[r] = "Missing" /\ outcome[q] = "Missing"
    /\ missing_entries[r] # missing_entries[q]
    /\ now[r] # now[q]

\* C10: when the first entry's date is later than the local date, the gap
\* detector returns the empty sequence and the request ends normally.
C10_FutureEntryIsEmpty ==
  \A r \in Reqs :
    (Detected(r) /\ Latest(r).some /\ Later(Latest(r).val, now[r].val)) =>
      outcome[r] = "Missing" /\ missing_entries[r].val = <<>>

\* C10 witness: the gap detector ran on a first entry dated after today.
C10_Witness ==
  \E r \in Reqs :
    /\ Detected(r) /\ Latest(r).some /\ Later(Latest(r).val, now[r].val)
    /\ pc[r] = "done"

====
